---- MODULE Spec2Model ----
(***************************************************************************)
(* GitHub MCP server: the multi-tenant variant (src/server.py, credentials *)
(* resolved per call from the call context) and the single-tenant variant  *)
(* (src/server_github.py, one process-wide token and username).            *)
(*                                                                         *)
(* One tool invocation runs at a time.  A tool is split at the points      *)
(* where it blocks on the remote API: the entry action runs the handler up *)
(* to its first HTTP request, each continuation action consumes the        *)
(* outcome of the pending request (a response or a transport failure) and  *)
(* runs the handler up to the next request or to its return.               *)
(***************************************************************************)
EXTENDS Integers, Sequences, FiniteSets, TLC

VARIABLES mode, GITHUB_TOKEN, GITHUB_USERNAME,
          pc, call, context, creds, requests, responses, out, result, log,
          classified, invocations

vars == <<mode, GITHUB_TOKEN, GITHUB_USERNAME,
          pc, call, context, creds, requests, responses, out, result, log,
          classified, invocations>>

config == <<mode, GITHUB_TOKEN, GITHUB_USERNAME>>

(***************************************************************************)
(* Bounds and input domains                                                *)
(***************************************************************************)
\* longest labels_csv argument, in characters
MaxCsvLen == 2

CsvAlphabet == {"a", ",", " "}

RECURSIVE StringsUpTo(_)
StringsUpTo(n) ==
  IF n = 0 THEN {<<>>}
  ELSE LET shorter == StringsUpTo(n - 1)
       IN  shorter \cup {Append(s, c) : s \in {t \in shorter : Len(t) = n - 1},
                                        c \in CsvAlphabet}

LabelsCsvArgs    == StringsUpTo(MaxCsvLen)
\* assignees_csv goes through the same expression as labels_csv: absent,
\* separators only, one name
AssigneesCsvArgs == {<<>>, <<",">>, <<"a">>}

Modes        == {"multi", "single"}
EnvTokens    == {"", "tE"}
EnvUsernames == {"", "uE"}
CtxTokens    == {"", " ", "tC"}
CtxUsernames == {"", "uC"}
Repos        == {"r"}
Names        == {"", "n"}
Descriptions == {"", "d"}
Titles       == {"", "T"}
Bodies       == {"", "B"}
IssueStates  == {"", "closed"}
Comments     == {"", "hi"}
IssueArgs    == {"7", "x"}
ListStates   == {"open", "closed", "all", "bogus", ""}

(***************************************************************************)
(* Python values                                                           *)
(***************************************************************************)
\* Optional[T]: None is the empty tuple, a value v is <<v>>
None      == <<>>
Some(v)   == <<v>>
IsNone(x) == x = <<>>

\* the idiom `s or None` on a str argument
OrNone(s) == IF s = "" THEN None ELSE Some(s)

\* str.strip() on the credential strings of the model
StripStr(s) == IF s = " " THEN "" ELSE s

\* str.strip() on a string held as a sequence of characters
RECURSIVE LStrip(_)
LStrip(s) == IF s # <<>> /\ Head(s) = " " THEN LStrip(Tail(s)) ELSE s
RECURSIVE RStrip(_)
RStrip(s) == IF s # <<>> /\ s[Len(s)] = " " THEN RStrip(SubSeq(s, 1, Len(s) - 1)) ELSE s
Strip(s) == RStrip(LStrip(s))

\* str.split(","): the pieces between the commas, empty pieces included
RECURSIVE SplitFrom(_, _, _)
SplitFrom(s, i, piece) ==
  IF i > Len(s) THEN <<piece>>
  ELSE IF s[i] = "," THEN <<piece>> \o SplitFrom(s, i + 1, <<>>)
       ELSE SplitFrom(s, i + 1, Append(piece, s[i]))
Split(s) == SplitFrom(s, 1, <<>>)

RECURSIVE StripNonEmpty(_)
StripNonEmpty(pieces) ==
  IF pieces = <<>> THEN <<>>
  ELSE (IF Strip(Head(pieces)) # <<>> THEN <<Strip(Head(pieces))>> ELSE <<>>)
       \o StripNonEmpty(Tail(pieces))

\* variant: an empty csv argument gives the empty list instead of None
parse_csv_empty_list(csv) == Some(StripNonEmpty(Split(csv)))

\* [x.strip() for x in csv.split(",") if x.strip()] if csv else None
parse_csv(csv) == IF csv = <<>> THEN None ELSE Some(StripNonEmpty(Split(csv)))

\* variant: the issue value is used without the int() conversion
IsInt_unchecked(s) == TRUE

\* int(issue) and its rendering in an f-string
IsInt(s)  == s \in {"7", "07"}
IntOf(s)  == IF s \in {"7", "07"} THEN 7 ELSE 0
IntStr(n) == IF n = 7 THEN "7" ELSE "0"

(***************************************************************************)
(* Exceptions and messages                                                 *)
(***************************************************************************)
\* the rendering of a header that the response does not carry
NoHeader == "None"

Exc(type, status, text, arg) ==
  [type |-> type, status |-> status, text |-> text, arg |-> arg,
   rl |-> NoHeader, reset |-> NoHeader]

ValueError(arg)      == Exc("ValueError", 0, "", arg)
JSONDecodeError      == Exc("JSONDecodeError", 0, "", "Expecting value")
HTTPStatusError(res) ==
  [Exc("HTTPStatusError", res.status, res.text, "status error")
     EXCEPT !.rl = res.rl, !.reset = res.reset]
TransportExc         == Exc("ConnectError", 0, "", "connection failed")

\* JSONDecodeError derives from ValueError
IsValueError(e) == e.type \in {"ValueError", "JSONDecodeError"}

Msg(prefix, category, code, text) ==
  [prefix |-> prefix, category |-> category, code |-> code, text |-> text,
   rl |-> "", reset |-> ""]
NoMsg == Msg("", "", 0, "")

\* str(e): the exception's own text, with no operation label
StrOf(e) == Msg("", e.type, e.status, e.arg)

RedirectCodes == {301, 302, 307, 308}
AuthCodes     == {401, 403}
\* `"CSRF" in text`, on the body texts of the model
HasCSRF(text) == text \in {"CSRF", "Invalid CSRF token"}

\* variant: the rate-limit headers are not read
rate_limit_absent(e) == [rl |-> NoHeader, reset |-> NoHeader]

\* e.response.headers.get("X-RateLimit-Remaining"), get("X-RateLimit-Reset")
rate_limit(e) == [rl |-> e.rl, reset |-> e.reset]

\* the suffix "RL={rl}, reset={rst}" of a message
WithRL(msg, e) ==
  [msg EXCEPT !.rl = rate_limit(e).rl, !.reset = rate_limit(e).reset]

\* variant: the CSRF test made before the redirect test
format_error_csrf_first(prefix, e) ==
  IF e.type = "HTTPStatusError"
  THEN IF HasCSRF(e.text) THEN Msg(prefix, "CSRF", e.status, "")
       ELSE IF e.status \in RedirectCodes THEN Msg(prefix, "Redirect", e.status, "")
       ELSE IF e.status \in AuthCodes THEN WithRL(Msg(prefix, "Auth", e.status, ""), e)
       ELSE WithRL(Msg(prefix, "Api", e.status, e.text), e)
  ELSE Msg(prefix, e.type, 0, e.arg)

\* every body text of the model is shorter than the 500 characters kept by
\* text[:500]
format_error(prefix, e) ==
  IF e.type = "HTTPStatusError"
  THEN IF e.status \in RedirectCodes THEN Msg(prefix, "Redirect", e.status, "")
       ELSE IF HasCSRF(e.text) THEN Msg(prefix, "CSRF", e.status, "")
       ELSE IF e.status \in AuthCodes THEN WithRL(Msg(prefix, "Auth", e.status, ""), e)
       ELSE WithRL(Msg(prefix, "Api", e.status, e.text), e)
  ELSE Msg(prefix, e.type, 0, e.arg)

(***************************************************************************)
(* Remote outcomes                                                         *)
(***************************************************************************)
Response(status, text) ==
  [kind |-> "response", status |-> status, text |-> text,
   rl |-> NoHeader, reset |-> NoHeader]
TransportFailure ==
  [kind |-> "failure", status |-> 0, text |-> "", rl |-> NoHeader, reset |-> NoHeader]

Outcomes ==
  { Response(200, "json"), Response(200, ""), Response(200, "html"),
    Response(201, "json"), Response(204, ""),
    Response(302, "html"), Response(302, "CSRF"),
    Response(403, "denied"), Response(403, "CSRF"),
    Response(404, "missing"), Response(404, "CSRF"),
    Response(405, "not allowed"),
    TransportFailure }

\* variant: raise_for_status() raising for 4xx and 5xx only
is_success_below_400(res) == res.status >= 200 /\ res.status <= 399

\* httpx Response.is_success, the test made by raise_for_status()
is_success(res) == res.status >= 200 /\ res.status <= 299

\* res.json() succeeds on a JSON body only
IsJson(text) == text = "json"

(***************************************************************************)
(* Tool results                                                            *)
(***************************************************************************)
Data(marker, update, comment, readme, readme_error) ==
  [marker |-> marker, update |-> update, comment |-> comment,
   readme |-> readme, readme_error |-> readme_error]
NoData == Data("", "", "", "", NoMsg)

\* json.dumps({"status": "success", ...})
SuccessObject(data) ==
  [shape |-> "object", status |-> "success", error |-> NoMsg, data |-> data]
\* json.dumps({"status": "error", "error": str(e)})
ErrorObject(msg) ==
  [shape |-> "object", status |-> "error", error |-> msg, data |-> NoData]
\* the bare string returned by `return format_error(...)`
ErrorString(msg) ==
  [shape |-> "string", status |-> "", error |-> msg, data |-> NoData]
NoResult == [shape |-> "none", status |-> "", error |-> NoMsg, data |-> NoData]
\* no value is returned: the exception leaves the tool function
Propagated(e) ==
  [shape |-> "exception", status |-> "", error |-> StrOf(e), data |-> NoData]

\* variant: a last clause that catches httpx.HTTPStatusError only
catches_exception_http_only(e) == e.type = "HTTPStatusError"

\* `except Exception`: isinstance(e, Exception)
catches_exception(e) ==
  e.type \in {"ValueError", "JSONDecodeError", "HTTPStatusError", "ConnectError"}

\* the except clauses that close every tool: ValueError (server.py only),
\* httpx.HTTPStatusError, Exception
tool_except(prefix, e) ==
  IF mode = "multi" /\ IsValueError(e) THEN ErrorObject(StrOf(e))
  ELSE IF e.type = "HTTPStatusError" THEN ErrorString(format_error(prefix, e))
  ELSE IF catches_exception(e) THEN ErrorObject(StrOf(e))
  ELSE Propagated(e)

(***************************************************************************)
(* Credentials                                                             *)
(***************************************************************************)
Ctx(has_env, token, username) ==
  [has_env |-> has_env, token |-> token, username |-> username]
NoContext == Ctx(FALSE, "", "")

Contexts ==
  {NoContext} \cup {Ctx(TRUE, t, u) : t \in CtxTokens, u \in CtxUsernames}

\* server_github.py tools take no context
ContextsOf(m) == IF m = "multi" THEN Contexts ELSE {NoContext}

Identity(token, username) == [token |-> token, username |-> username]
NoCreds == Identity("", "")

Resolved(c)  == [ok |-> TRUE, creds |-> c, exc |-> ValueError("")]
Rejected(e)  == [ok |-> FALSE, creds |-> NoCreds, exc |-> e]

\* UserCredentials.__init__
UserCredentials(token, username) ==
  IF token = "" THEN Rejected(ValueError("GITHUB_TOKEN not provided"))
  ELSE IF username = "" THEN Rejected(ValueError("GITHUB_USERNAME not provided"))
  ELSE Resolved(Identity(token, username))

get_user_credentials(ctx) ==
  LET token0    == IF ctx.has_env THEN ctx.token ELSE ""
      username0 == IF ctx.has_env THEN ctx.username ELSE ""
      token     == IF token0 = "" THEN GITHUB_TOKEN ELSE token0
      username  == IF username0 = "" THEN GITHUB_USERNAME ELSE username0
  IN  UserCredentials(StripStr(token), StripStr(username))

\* server_github.py: `if not API_KEY: return {"status": "error", ...}`
api_key_guard ==
  IF GITHUB_TOKEN = "" THEN Rejected(ValueError("GITHUB_TOKEN not configured"))
  ELSE Resolved(Identity(GITHUB_TOKEN, GITHUB_USERNAME))

\* the first statement of every tool
authenticate(ctx) ==
  IF mode = "multi" THEN get_user_credentials(ctx) ELSE api_key_guard

\* the User-Agent suffix of get_headers
user_agent(c) ==
  IF mode = "single" /\ c.username = "" THEN "unknown" ELSE c.username

(***************************************************************************)
(* Requests                                                                *)
(***************************************************************************)
NoJson   == [k \in {} |-> ""]
NoParams == [k \in {} |-> ""]

Request(c, method, path, json, params) ==
  [method |-> method, path |-> path, json |-> json, params |-> params,
   authorization |-> c.token, user_agent |-> user_agent(c)]

repo_url(c, repo) == <<"repos", c.username, repo>>

suggest_description(name) ==
  IF name = "" THEN "test: Repository for testing and experiments"
  ELSE "n: Repository for testing and experiments"

(***************************************************************************)
(* Logging                                                                 *)
(*                                                                         *)
(* `log` holds the lines written at startup and by the invocation in       *)
(* progress, every level included.  A line keeps the values interpolated   *)
(* into its text: `args` the strings, `code` the status, `body` the JSON   *)
(* payload.                                                                *)
(***************************************************************************)
Line(level, fmt, code, args, body) ==
  [level |-> level, fmt |-> fmt, code |-> code, args |-> args, body |-> body]

\* the lines written when the module is loaded and when the server starts
startup_lines ==
  IF mode = "multi"
  THEN << Line("INFO", "Each user provides their own GITHUB_TOKEN and GITHUB_USERNAME",
               0, <<>>, NoJson),
          Line("INFO", "Starting Multi-User GitHub MCP server", 0, <<>>, NoJson) >>
  ELSE << IF GITHUB_TOKEN = ""
          THEN Line("WARNING", "Server starting WITHOUT GitHub token", 0, <<>>, NoJson)
          ELSE Line("INFO", "Token configured for user", 0,
                    <<IF GITHUB_USERNAME = "" THEN "unknown" ELSE GITHUB_USERNAME>>,
                    NoJson),
          Line("INFO", "Token configured", 0,
               <<IF GITHUB_TOKEN = "" THEN "No" ELSE "Yes">>, NoJson),
          Line("INFO", "Username", 0,
               <<IF GITHUB_USERNAME = "" THEN "(will be provided by users)"
                 ELSE GITHUB_USERNAME>>, NoJson) >>

\* variant: the headers logged as they are sent
safe_headers_verbatim(req) ==
  [authorization |-> req.authorization, user_agent |-> req.user_agent]

\* the dict comprehension of log_request
safe_headers(req) ==
  [authorization |-> "<hidden>", user_agent |-> req.user_agent]

\* the request hook of build_client
log_request(req) ==
  << Line("INFO", "=>", 0, <<req.method>> \o req.path, NoJson),
     Line("DEBUG", "Headers", 0,
          <<safe_headers(req).authorization, safe_headers(req).user_agent>>, NoJson),
     Line("DEBUG", "Body", 0, <<>>, req.json) >>

\* the response hook of build_client; it runs for a response only
log_response(req, o) ==
  IF o.kind = "response"
  THEN << Line("INFO", "<=", o.status, <<req.method>> \o req.path, NoJson),
          Line("DEBUG", "Response", 0, <<o.text>>, NoJson) >>
  ELSE <<>>

\* the lines a tool writes before its first request: UserCredentials.__init__
\* (server.py) and create_repo
entry_lines(c, k) ==
  IF k.token = "" THEN <<>>
  ELSE (IF mode = "multi"
        THEN <<Line("INFO", "User authenticated", 0, <<k.username>>, NoJson)>>
        ELSE <<>>)
       \o (IF c.tool = "create_repo"
           THEN <<Line("INFO", "Creating repo", 0,
                       IF mode = "multi" THEN <<c.name, k.username>> ELSE <<c.name>>,
                       NoJson)>>
           ELSE <<>>)

\* log.exception("Unexpected error") of the `except Exception` clause: the
\* error objects that clause builds
exception_lines(r) ==
  IF /\ r.shape = "object"
     /\ r.status = "error"
     /\ ~(mode = "multi" /\ r.error.category \in {"ValueError", "JSONDecodeError"})
     /\ ~(mode = "single" /\ r.error.text = "GITHUB_TOKEN not configured")
  THEN <<Line("ERROR", "Unexpected error", 0, <<r.error.text>>, NoJson)>>
  ELSE <<>>

(***************************************************************************)
(* Calls                                                                   *)
(***************************************************************************)
NoCall ==
  [tool |-> "", repo |-> "", name |-> "", description |-> "", private |-> FALSE,
   set_private |-> FALSE, create_readme |-> FALSE, state |-> "", title |-> "",
   body |-> "", labels_csv |-> <<>>, assignees_csv |-> <<>>, comment |-> "",
   issue |-> ""]

\* the callers whose invocations may overlap
Callers == {1, 2}

\* the frame of one invocation: its context argument, its local `creds`,
\* the requests its own client has sent
Invocation(pc_, ctx, c, repo, reqs) ==
  [pc |-> pc_, context |-> ctx, creds |-> c, repo |-> repo, requests |-> reqs]
NoInvocation == Invocation("idle", NoContext, NoCreds, "", <<>>)

\* no classification made yet
NoClassified == [prefix |-> "", e |-> Exc("", 0, "", ""), msg |-> NoMsg]

Init ==
  /\ mode \in Modes
  /\ GITHUB_TOKEN \in EnvTokens
  /\ GITHUB_USERNAME \in EnvUsernames
  /\ pc = "idle"
  /\ call = NoCall
  /\ context = NoContext
  /\ creds = NoCreds
  /\ requests = <<>>
  /\ responses = <<>>
  /\ out = NoData
  /\ result = NoResult
  /\ log = startup_lines
  /\ classified = NoClassified
  /\ invocations = [i \in Callers |-> NoInvocation]

\* the lines written by the step in progress before it returns or sends: the
\* tool's entry, or the response hook for the outcome just received
step_lines ==
  IF pc = "idle" THEN entry_lines(call', creds')
  ELSE log_response(requests[Len(requests)], responses'[Len(responses')])

\* the tool returns `r` to the dispatch layer
Finish(r) ==
  /\ pc' = "done"
  /\ result' = r
  /\ log' = log \o step_lines \o exception_lines(r)

\* the tool sends `req` and blocks at `label`
Send(req, label) ==
  /\ requests' = Append(requests, req)
  /\ pc' = label
  /\ result' = result
  /\ log' = log \o step_lines \o log_request(req)

\* entry of a tool: bind the arguments and the context
Enter(c, ctx) ==
  /\ pc = "idle"
  /\ ctx \in ContextsOf(mode)
  /\ call' = c
  /\ context' = ctx
  /\ responses' = responses
  /\ UNCHANGED <<config, classified, invocations>>

\* the remote outcome `o` of the pending request arrives at `label`
Receive(label, o) ==
  /\ pc = label
  /\ o \in Outcomes
  /\ responses' = Append(responses, o)
  /\ UNCHANGED <<config, call, context, creds, classified, invocations>>

(***************************************************************************)
(* delete_repo                                                             *)
(***************************************************************************)
delete_repo(repo, ctx) ==
  LET auth == authenticate(ctx) IN
  /\ Enter([NoCall EXCEPT !.tool = "delete_repo", !.repo = repo], ctx)
  /\ creds' = auth.creds
  /\ out' = out
  /\ IF ~auth.ok
     THEN /\ Finish(ErrorObject(StrOf(auth.exc)))
          /\ requests' = requests
     ELSE Send(Request(auth.creds, "DELETE", repo_url(auth.creds, repo), NoJson, NoParams),
               "api_delete_repo")

\* api_delete_repo after client.delete(...) and the tool's return
api_delete_repo(o) ==
  /\ Receive("api_delete_repo", o)
  /\ UNCHANGED <<requests, out>>
  /\ IF o.kind = "failure"
     THEN Finish(tool_except("Repo delete failed", TransportExc))
     ELSE IF o.status \in {200, 202, 204}
          THEN Finish(SuccessObject(Data("deleted", "", "", "", NoMsg)))
          ELSE IF ~is_success(o)
               THEN Finish(tool_except("Repo delete failed", HTTPStatusError(o)))
               ELSE Finish(SuccessObject(Data("deleted", "", "", "", NoMsg)))

(***************************************************************************)
(* create_repo                                                             *)
(***************************************************************************)
create_payload(name, description, private) ==
  [name |-> name,
   description |-> IF description = "" THEN suggest_description(name) ELSE description,
   private |-> private]

readme_payload == [message |-> "Add README", content |-> "base64(readme_content)"]

create_repo(name, description, private, create_readme, ctx) ==
  LET auth == authenticate(ctx)
      desc == IF description = "" THEN suggest_description(name) ELSE description
  IN
  /\ Enter([NoCall EXCEPT !.tool = "create_repo", !.name = name,
                          !.description = description, !.private = private,
                          !.create_readme = create_readme], ctx)
  /\ creds' = auth.creds
  /\ out' = out
  /\ IF ~auth.ok
     THEN /\ Finish(ErrorObject(StrOf(auth.exc)))
          /\ requests' = requests
     ELSE Send(Request(auth.creds, "POST", <<"user", "repos">>,
                       create_payload(name, desc, private), NoParams),
               "api_create_repo")

\* api_create_repo after client.post(...), then create_repo up to the README request
api_create_repo(o) ==
  /\ Receive("api_create_repo", o)
  /\ IF o.kind = "failure"
     THEN /\ Finish(tool_except("Repo creation failed", TransportExc))
          /\ UNCHANGED <<requests, out>>
     ELSE IF ~is_success(o)
     THEN /\ Finish(tool_except("Repo creation failed", HTTPStatusError(o)))
          /\ UNCHANGED <<requests, out>>
     ELSE IF ~IsJson(o.text)
     THEN /\ Finish(tool_except("Repo creation failed", JSONDecodeError))
          /\ UNCHANGED <<requests, out>>
     ELSE IF call.create_readme
     THEN /\ Send(Request(creds, "PUT",
                          repo_url(creds, call.name) \o <<"contents", "README.md">>,
                          readme_payload, NoParams),
                  "api_create_readme")
          /\ out' = Data("repo", "", "", "", NoMsg)
     ELSE /\ Finish(SuccessObject(Data("repo", "", "", "skipped", NoMsg)))
          /\ UNCHANGED <<requests, out>>

\* api_create_readme after client.put(...), inside create_repo's inner try
api_create_readme(o) ==
  /\ Receive("api_create_readme", o)
  /\ UNCHANGED <<requests, out>>
  /\ IF o.kind = "failure"
     THEN Finish(SuccessObject(Data("repo", "", "", "failed", StrOf(TransportExc))))
     ELSE IF ~is_success(o)
     THEN Finish(SuccessObject(Data("repo", "", "", "failed", StrOf(HTTPStatusError(o)))))
     ELSE IF ~IsJson(o.text)
     THEN Finish(SuccessObject(Data("repo", "", "", "failed", StrOf(JSONDecodeError))))
     ELSE Finish(SuccessObject(Data("repo", "", "", "created", NoMsg)))

(***************************************************************************)
(* update_repo                                                             *)
(***************************************************************************)
\* the payload dict of api_update_repo: only the fields that are not None
update_payload(name, description, private) ==
  LET keys == {k \in {"name", "description", "private"} :
                 \/ k = "name" /\ ~IsNone(name)
                 \/ k = "description" /\ ~IsNone(description)
                 \/ k = "private" /\ ~IsNone(private)}
  IN  [k \in keys |-> IF k = "name" THEN name[1]
                      ELSE IF k = "description" THEN description[1]
                      ELSE IF private[1] THEN "true" ELSE "false"]

\* variant: `private` passed on whether or not set_private is given
update_args_always_private(c) ==
  [name |-> OrNone(c.name), description |-> OrNone(c.description),
   private |-> Some(c.private)]

\* the tool's conversion of its arguments to the keyword arguments of api_update_repo
update_args(c) ==
  [name |-> OrNone(c.name), description |-> OrNone(c.description),
   private |-> IF c.set_private THEN Some(c.private) ELSE None]

call_update_payload(c) ==
  update_payload(update_args(c).name, update_args(c).description, update_args(c).private)

update_repo(repo, name, description, set_private, private, ctx) ==
  LET auth    == authenticate(ctx)
      c       == [NoCall EXCEPT !.tool = "update_repo", !.repo = repo, !.name = name,
                                !.description = description,
                                !.set_private = set_private, !.private = private]
      payload == call_update_payload(c)
  IN
  /\ Enter(c, ctx)
  /\ creds' = auth.creds
  /\ out' = out
  /\ IF ~auth.ok
     THEN /\ Finish(ErrorObject(StrOf(auth.exc)))
          /\ requests' = requests
     ELSE IF DOMAIN payload = {}
     THEN /\ Finish(tool_except("Repo update failed", ValueError("No fields to update")))
          /\ requests' = requests
     ELSE Send(Request(auth.creds, "PATCH", repo_url(auth.creds, repo), payload, NoParams),
               "api_update_repo")

\* variant: the PUT fallback also taken on 404
method_not_allowed_or_missing(res) == res.status \in {404, 405}

\* `if res.status_code == 405`
method_not_allowed(res) == res.status = 405

\* res.raise_for_status(); return res.json() if res.text else {"status": "ok"}
update_repo_return(o) ==
  IF o.kind = "failure" THEN tool_except("Repo update failed", TransportExc)
  ELSE IF ~is_success(o) THEN tool_except("Repo update failed", HTTPStatusError(o))
  ELSE IF o.text = "" THEN SuccessObject(Data("ok", "", "", "", NoMsg))
  ELSE IF IsJson(o.text) THEN SuccessObject(Data("json", "", "", "", NoMsg))
  ELSE tool_except("Repo update failed", JSONDecodeError)

\* api_update_repo after client.patch(...)
api_update_repo(o) ==
  /\ Receive("api_update_repo", o)
  /\ out' = out
  /\ IF o.kind = "response" /\ method_not_allowed(o)
     THEN Send(Request(creds, "PUT", repo_url(creds, call.repo),
                       call_update_payload(call), NoParams),
               "api_update_repo_put")
     ELSE /\ Finish(update_repo_return(o))
          /\ requests' = requests

\* api_update_repo after client.put(...)
api_update_repo_put(o) ==
  /\ Receive("api_update_repo_put", o)
  /\ UNCHANGED <<requests, out>>
  /\ Finish(update_repo_return(o))

(***************************************************************************)
(* issues_list, issue_create, pr_open                                      *)
(***************************************************************************)
\* variant: the state argument passed on without the membership test
list_state_verbatim(state) == Some(state)

\* `state if state in ("open", "closed", "all") else None`
list_state(state) == IF state \in {"open", "closed", "all"} THEN Some(state) ELSE None

\* params of api_list_issues: `if state: params["state"] = state`
list_params(state) ==
  IF IsNone(state) \/ state = Some("") THEN NoParams ELSE [k \in {"state"} |-> state[1]]

\* the return of a tool that makes one request and parses its JSON body
single_return(prefix, marker, o) ==
  IF o.kind = "failure" THEN tool_except(prefix, TransportExc)
  ELSE IF ~is_success(o) THEN tool_except(prefix, HTTPStatusError(o))
  ELSE IF ~IsJson(o.text) THEN tool_except(prefix, JSONDecodeError)
  ELSE SuccessObject(Data(marker, "", "", "", NoMsg))

issues_list(repo, state, ctx) ==
  LET auth == authenticate(ctx) IN
  /\ Enter([NoCall EXCEPT !.tool = "issues_list", !.repo = repo, !.state = state], ctx)
  /\ creds' = auth.creds
  /\ out' = out
  /\ IF ~auth.ok
     THEN /\ Finish(ErrorObject(StrOf(auth.exc)))
          /\ requests' = requests
     ELSE Send(Request(auth.creds, "GET", repo_url(auth.creds, repo) \o <<"issues">>,
                       NoJson, list_params(list_state(state))),
               "api_list_issues")

api_list_issues(o) ==
  /\ Receive("api_list_issues", o)
  /\ UNCHANGED <<requests, out>>
  /\ Finish(single_return("Issues list failed", "items", o))

\* the payload dict of api_create_issue
issue_payload(title, body, labels, assignees) ==
  LET keys == {"title", "body"}
              \cup (IF ~IsNone(labels) /\ labels[1] # <<>> THEN {"labels"} ELSE {})
              \cup (IF ~IsNone(assignees) /\ assignees[1] # <<>> THEN {"assignees"} ELSE {})
  IN  [k \in keys |-> IF k = "title" THEN title
                      ELSE IF k = "body" THEN body
                      ELSE IF k = "labels" THEN labels[1]
                      ELSE assignees[1]]

issue_create(repo, title, body, labels_csv, assignees_csv, ctx) ==
  LET auth == authenticate(ctx) IN
  /\ Enter([NoCall EXCEPT !.tool = "issue_create", !.repo = repo, !.title = title,
                          !.body = body, !.labels_csv = labels_csv,
                          !.assignees_csv = assignees_csv], ctx)
  /\ creds' = auth.creds
  /\ out' = out
  /\ IF ~auth.ok
     THEN /\ Finish(ErrorObject(StrOf(auth.exc)))
          /\ requests' = requests
     ELSE Send(Request(auth.creds, "POST", repo_url(auth.creds, repo) \o <<"issues">>,
                       issue_payload(title, body, parse_csv(labels_csv),
                                     parse_csv(assignees_csv)), NoParams),
               "api_create_issue")

api_create_issue(o) ==
  /\ Receive("api_create_issue", o)
  /\ UNCHANGED <<requests, out>>
  /\ Finish(single_return("Issue create failed", "item", o))

pr_payload(title, head, base, body) ==
  [title |-> title, head |-> head, base |-> base, body |-> body]

pr_open(repo, title, head, base, body, ctx) ==
  LET auth == authenticate(ctx) IN
  /\ Enter([NoCall EXCEPT !.tool = "pr_open", !.repo = repo, !.title = title,
                          !.body = body], ctx)
  /\ creds' = auth.creds
  /\ out' = out
  /\ IF ~auth.ok
     THEN /\ Finish(ErrorObject(StrOf(auth.exc)))
          /\ requests' = requests
     ELSE Send(Request(auth.creds, "POST", repo_url(auth.creds, repo) \o <<"pulls">>,
                       pr_payload(title, head, base, body), NoParams),
               "api_open_pr")

api_open_pr(o) ==
  /\ Receive("api_open_pr", o)
  /\ UNCHANGED <<requests, out>>
  /\ Finish(single_return("PR open failed", "pr", o))

(***************************************************************************)
(* issue_update                                                            *)
(***************************************************************************)
\* the patch_payload dict of api_update_issue: only the fields that are not None
patch_payload(title, body, state, labels, assignees) ==
  LET keys == {k \in {"title", "body", "state", "labels", "assignees"} :
                 \/ k = "title" /\ ~IsNone(title)
                 \/ k = "body" /\ ~IsNone(body)
                 \/ k = "state" /\ ~IsNone(state)
                 \/ k = "labels" /\ ~IsNone(labels)
                 \/ k = "assignees" /\ ~IsNone(assignees)}
  IN  [k \in keys |-> IF k = "title" THEN title[1]
                      ELSE IF k = "body" THEN body[1]
                      ELSE IF k = "state" THEN state[1]
                      ELSE IF k = "labels" THEN labels[1]
                      ELSE assignees[1]]

\* the tool's conversion of its arguments to the arguments of api_update_issue
call_patch_payload(c) ==
  patch_payload(OrNone(c.title), OrNone(c.body), OrNone(c.state),
                parse_csv(c.labels_csv), parse_csv(c.assignees_csv))

issue_url(c, repo, issue) == repo_url(c, repo) \o <<"issues", IntStr(IntOf(issue))>>

comment_request(c, cl) ==
  Request(c, "POST", issue_url(c, cl.repo, cl.issue) \o <<"comments">>,
          [body |-> cl.comment], NoParams)

issue_update(repo, issue, title, body, state, labels_csv, assignees_csv, comment, ctx) ==
  LET auth == authenticate(ctx)
      c    == [NoCall EXCEPT !.tool = "issue_update", !.repo = repo, !.issue = issue,
                             !.title = title, !.body = body, !.state = state,
                             !.labels_csv = labels_csv,
                             !.assignees_csv = assignees_csv, !.comment = comment]
      payload == call_patch_payload(c)
  IN
  /\ Enter(c, ctx)
  /\ creds' = auth.creds
  /\ out' = out
  /\ IF ~auth.ok
     THEN /\ Finish(ErrorObject(StrOf(auth.exc)))
          /\ requests' = requests
     ELSE IF ~IsInt(issue)
     THEN /\ Finish(tool_except("Issue update failed", ValueError("invalid literal for int()")))
          /\ requests' = requests
     ELSE IF DOMAIN payload # {}
     THEN Send(Request(auth.creds, "PATCH", issue_url(auth.creds, repo, issue),
                       payload, NoParams),
               "api_update_issue")
     ELSE IF comment # ""
     THEN Send(comment_request(auth.creds, c), "api_update_issue_comment")
     ELSE /\ Finish(SuccessObject(Data("no-op", "", "", "", NoMsg)))
          /\ requests' = requests

\* variant: only a transport failure ends the step (no raise_for_status)
step_exc_transport_only(o) == IF o.kind = "failure" THEN Some(TransportExc) ELSE None

\* the exception, if any, that ends a step whose body is read as
\* `res.json() if res.text else {...}`
step_exc(o) ==
  IF o.kind = "failure" THEN Some(TransportExc)
  ELSE IF ~is_success(o) THEN Some(HTTPStatusError(o))
  ELSE IF o.text # "" /\ ~IsJson(o.text) THEN Some(JSONDecodeError)
  ELSE None

\* api_update_issue after client.patch(...)
api_update_issue(o) ==
  /\ Receive("api_update_issue", o)
  /\ IF ~IsNone(step_exc(o))
     THEN /\ Finish(tool_except("Issue update failed", step_exc(o)[1]))
          /\ UNCHANGED <<requests, out>>
     ELSE LET updated == [out EXCEPT !.update = IF o.text = "" THEN "ok" ELSE "json"] IN
          /\ out' = updated
          /\ IF call.comment # ""
             THEN Send(comment_request(creds, call), "api_update_issue_comment")
             ELSE /\ Finish(SuccessObject([updated EXCEPT !.marker = "out"]))
                  /\ requests' = requests

\* api_update_issue after client.post(url_c, ...)
api_update_issue_comment(o) ==
  /\ Receive("api_update_issue_comment", o)
  /\ requests' = requests
  /\ IF ~IsNone(step_exc(o))
     THEN /\ Finish(tool_except("Issue update failed", step_exc(o)[1]))
          /\ out' = out
     ELSE LET commented ==
                [out EXCEPT !.comment = IF o.text = "" THEN "commented" ELSE "json"] IN
          /\ out' = commented
          /\ Finish(SuccessObject([commented EXCEPT !.marker = "out"]))

(***************************************************************************)
(* Return to the dispatch layer                                            *)
(***************************************************************************)
Return ==
  /\ pc = "done"
  /\ pc' = "idle"
  /\ call' = NoCall
  /\ context' = NoContext
  /\ creds' = NoCreds
  /\ requests' = <<>>
  /\ responses' = <<>>
  /\ out' = NoData
  /\ result' = NoResult
  /\ log' = startup_lines
  /\ UNCHANGED <<config, classified, invocations>>

Next ==
  \/ pc = "idle" /\ \E name \in Names, description \in Descriptions, private \in BOOLEAN,
        create_readme \in BOOLEAN, ctx \in Contexts :
       create_repo(name, description, private, create_readme, ctx)
  \/ \E o \in Outcomes : api_create_repo(o)
  \/ \E o \in Outcomes : api_create_readme(o)
  \/ pc = "idle" /\ \E repo \in Repos, name \in Names, description \in Descriptions,
        set_private \in BOOLEAN, private \in BOOLEAN, ctx \in Contexts :
       update_repo(repo, name, description, set_private, private, ctx)
  \/ \E o \in Outcomes : api_update_repo(o)
  \/ \E o \in Outcomes : api_update_repo_put(o)
  \/ pc = "idle" /\ \E repo \in Repos, ctx \in Contexts : delete_repo(repo, ctx)
  \/ \E o \in Outcomes : api_delete_repo(o)
  \/ pc = "idle" /\ \E repo \in Repos, state \in ListStates, ctx \in Contexts :
       issues_list(repo, state, ctx)
  \/ \E o \in Outcomes : api_list_issues(o)
  \/ pc = "idle" /\ \E repo \in Repos, labels_csv \in LabelsCsvArgs,
        assignees_csv \in AssigneesCsvArgs, ctx \in Contexts :
       issue_create(repo, "T", "B", labels_csv, assignees_csv, ctx)
  \/ \E o \in Outcomes : api_create_issue(o)
  \/ pc = "idle" /\ \E repo \in Repos, issue \in IssueArgs, title \in Titles, body \in Bodies,
        state \in IssueStates, labels_csv \in LabelsCsvArgs,
        assignees_csv \in AssigneesCsvArgs, comment \in Comments, ctx \in Contexts :
       issue_update(repo, issue, title, body, state, labels_csv, assignees_csv,
                    comment, ctx)
  \/ \E o \in Outcomes : api_update_issue(o)
  \/ \E o \in Outcomes : api_update_issue_comment(o)
  \/ pc = "idle" /\ \E repo \in Repos, ctx \in Contexts :
       pr_open(repo, "T", "feature", "main", "B", ctx)
  \/ \E o \in Outcomes : api_open_pr(o)
  \/ Return

Spec == Init /\ [][Next]_vars

(***************************************************************************)
(* The error classifier on its own: format_error applied to any label and  *)
(* any exception, outside of a tool invocation.                            *)
(***************************************************************************)
Labels == {"Repo creation failed", "Issue update failed"}

ErrorStatuses == {301, 302, 307, 308, 400, 401, 403, 404, 422, 500}
ErrorBodies   == {"", "denied", "CSRF", "Invalid CSRF token", "csrf"}
Remaining     == {NoHeader, "0", "42"}
Resets        == {NoHeader, "1700000000"}

ErrorResponses ==
  { [Response(status, text) EXCEPT !.rl = rl, !.reset = reset] :
      status \in ErrorStatuses, text \in ErrorBodies,
      rl \in Remaining, reset \in Resets }

OtherExceptions ==
  { TransportExc, Exc("ReadTimeout", 0, "", "timed out"),
    ValueError("No fields to update") }

classify(prefix, e) ==
  /\ classified' = [prefix |-> prefix, e |-> e, msg |-> format_error(prefix, e)]
  /\ UNCHANGED <<config, pc, call, context, creds, requests, responses, out,
                 result, log, invocations>>

\* format_error on the exception of raise_for_status()
classify_status_error ==
  \E prefix \in Labels, res \in ErrorResponses :
    classify(prefix, HTTPStatusError(res))

\* format_error on any other exception
classify_other ==
  \E prefix \in Labels, e \in OtherExceptions : classify(prefix, e)

ClassifyNext == classify_status_error \/ classify_other

SpecClassify == Init /\ [][ClassifyNext]_vars

(***************************************************************************)
(* Overlapping invocations: update_repo called by several callers, each    *)
(* with its own context; the steps of the invocations interleave at the    *)
(* points where a tool waits for the remote API.                           *)
(***************************************************************************)
ConcContexts ==
  { NoContext, Ctx(TRUE, "tC", "uC"), Ctx(TRUE, "tD", "uD"), Ctx(TRUE, "", "uD"),
    Ctx(TRUE, "tD", "") }

ConcContextsOf(m) == IF m = "multi" THEN ConcContexts ELSE {NoContext}

ConcOutcomes == {Response(200, "json"), Response(405, "not allowed"), TransportFailure}

\* variant: the credentials kept in one module-level slot, written by the
\* first caller
invocation_creds_shared(i) == invocations[1].creds

\* the local variable `creds` of the invocation
invocation_creds(i) == invocations[i].creds

conc_update_request(c, method, repo) ==
  Request(c, method, repo_url(c, repo), update_payload(Some("n"), None, None), NoParams)

conc_update_repo(i, repo, ctx) ==
  LET auth == authenticate(ctx) IN
  /\ invocations[i].pc = "idle"
  /\ ctx \in ConcContextsOf(mode)
  /\ invocations' =
       [invocations EXCEPT ![i] =
          IF ~auth.ok THEN Invocation("done", ctx, auth.creds, repo, <<>>)
          ELSE Invocation("api_update_repo", ctx, auth.creds, repo,
                          <<conc_update_request(auth.creds, "PATCH", repo)>>)]
  /\ UNCHANGED <<config, pc, call, context, creds, requests, responses, out,
                 result, log, classified>>

conc_api_update_repo(i, o) ==
  /\ invocations[i].pc = "api_update_repo"
  /\ invocations' =
       [invocations EXCEPT ![i] =
          IF o.kind = "response" /\ method_not_allowed(o)
          THEN [@ EXCEPT !.pc = "api_update_repo_put",
                         !.requests = Append(@, conc_update_request(
                                        invocation_creds(i), "PUT",
                                        invocations[i].repo))]
          ELSE [@ EXCEPT !.pc = "done"]]
  /\ UNCHANGED <<config, pc, call, context, creds, requests, responses, out,
                 result, log, classified>>

conc_api_update_repo_put(i, o) ==
  /\ invocations[i].pc = "api_update_repo_put"
  /\ invocations' = [invocations EXCEPT ![i].pc = "done"]
  /\ UNCHANGED <<config, pc, call, context, creds, requests, responses, out,
                 result, log, classified>>

conc_return(i) ==
  /\ invocations[i].pc = "done"
  /\ invocations' = [invocations EXCEPT ![i] = NoInvocation]
  /\ UNCHANGED <<config, pc, call, context, creds, requests, responses, out,
                 result, log, classified>>

ConcNext ==
  \/ \E i \in Callers, repo \in Repos, ctx \in ConcContexts : conc_update_repo(i, repo, ctx)
  \/ \E i \in Callers, o \in ConcOutcomes : conc_api_update_repo(i, o)
  \/ \E i \in Callers, o \in ConcOutcomes : conc_api_update_repo_put(i, o)
  \/ \E i \in Callers : conc_return(i)

SpecConc == Init /\ [][ConcNext]_vars

(***************************************************************************)
(* Properties                                                              *)
(***************************************************************************)
\* a remote step that failed: no response at all, or a status outside 2xx
Failed(o) == o.kind = "failure" \/ o.status < 200 \/ o.status > 299
Succeeded(o) == o.kind = "response" /\ o.status >= 200 /\ o.status <= 299

\* the step completed and its body could be read
Completed(o) == Succeeded(o) /\ o.text \in {"", "json"}

\* the invocation passed credential resolution
CredsResolved == creds.token # ""

IsCommentPost(req) ==
  req.method = "POST" /\ req.path[Len(req.path)] = "comments"
CommentPosted == \E i \in 1..Len(requests) : IsCommentPost(requests[i])
PatchSent     == \E i \in 1..Len(requests) : requests[i].method = "PATCH"

C2_NoFieldsToUpdate ==
  (call.tool = "update_repo" /\ call.name = "" /\ call.description = ""
     /\ ~call.set_private) =>
    /\ pc = "done"
    /\ requests = <<>>
    /\ responses = <<>>
    /\ CredsResolved =>
         /\ result.shape = "object"
         /\ result.status = "error"
         /\ result.error.category = "ValueError"
         /\ result.error.text = "No fields to update"

C2_Witness ==
  /\ pc = "done"
  /\ call.tool = "update_repo"
  /\ call.name = "" /\ call.description = "" /\ ~call.set_private
  /\ CredsResolved
  /\ result.error.text = "No fields to update"

\* the message is what format_error gives for the exception, under some label
Classified(msg, e) == msg = format_error(msg.prefix, e)

\* C3: in create_repo the README PUT is sent only as the second request,
\* after the create POST succeeded; when the seed step fails the tool sends
\* nothing more (no undo) and returns a success result whose readme entry is
\* the seed step's classified error.
C3_SeedAfterCreate ==
  call.tool = "create_repo" =>
    /\ \A i \in 1..Len(requests) :
         requests[i].method = "PUT" =>
           i = 2 /\ Len(responses) >= 1 /\ Succeeded(responses[1])
    /\ (pc = "done" /\ Len(responses) = 2 /\ Failed(responses[2])) =>
         /\ Len(requests) = 2
         /\ result.status = "success"
         /\ result.data.readme = "failed"
         /\ Classified(result.data.readme_error,
                       IF responses[2].kind = "failure" THEN TransportExc
                       ELSE HTTPStatusError(responses[2]))

BothRequested ==
  /\ call.tool = "issue_update"
  /\ call.comment # ""
  /\ Len(requests) >= 1
  /\ requests[1].method = "PATCH"

\* C4 as claimed: with field edits and a comment both requested, the comment
\* POST is sent unless the PATCH failed by transport failure; a PATCH answered
\* with a non-2xx status is still followed by the comment POST.
C4_CommentUnlessFatal ==
  (BothRequested /\ pc = "done") =>
    /\ responses[1].kind = "failure" => ~CommentPosted
    /\ (responses[1].kind = "response" /\ Failed(responses[1])) => CommentPosted
    /\ Completed(responses[1]) => CommentPosted

\* C4 as amended: with field edits and a comment both requested, the comment
\* POST is sent exactly when the PATCH step completed (2xx status, body empty
\* or JSON); a non-2xx status, like a transport failure, is followed by no
\* comment POST.
C4_CommentOnlyAfterPatchCompleted ==
  (BothRequested /\ pc = "done") =>
    (CommentPosted <=> Completed(responses[1]))

C4_Witness ==
  /\ BothRequested
  /\ pc = "done"
  /\ responses[1].kind = "response"
  /\ responses[1].status = 404
  /\ ~CommentPosted

\* C5: with field edits and a comment both requested, when the PATCH succeeds
\* and the comment POST fails, the returned result still carries the `update`
\* sub-result next to the comment step's error.
C5_UpdateReportedWhenCommentFails ==
  (pc = "done" /\ BothRequested /\ Len(responses) = 2
     /\ Completed(responses[1]) /\ Failed(responses[2])) =>
    /\ result.data.update \in {"ok", "json"}
    /\ result.error # NoMsg

\* an issue_update call that asks for a comment and for no field edit
CommentOnly ==
  /\ call.tool = "issue_update"
  /\ call.issue = "7"
  /\ CredsResolved
  /\ call.title = "" /\ call.body = "" /\ call.state = ""
  /\ call.labels_csv = <<>> /\ call.assignees_csv = <<>>
  /\ call.comment # ""

\* C6: an issue_update call that carries a comment and no title, body, state,
\* labels_csv or assignees_csv (credentials resolved, issue number numeric)
\* sends exactly one request, the POST to the comments endpoint, and no
\* PATCH; its success result has the `comment` entry and no `update` entry.
C6_CommentOnly ==
  CommentOnly =>
    /\ Len(requests) = 1
    /\ IsCommentPost(requests[1])
    /\ requests[1].path = <<"repos", creds.username, call.repo, "issues", "7", "comments">>
    /\ ~PatchSent
    /\ (pc = "done" /\ result.status = "success") =>
         /\ result.data.comment \in {"commented", "json"}
         /\ result.data.update = ""

C6_Witness ==
  /\ CommentOnly
  /\ pc = "done"
  /\ result.status = "success"
  /\ result.data.comment = "json"

Deleted == result.status = "success" /\ result.data.marker = "deleted"

\* C7 as claimed: delete_repo reports "deleted" exactly for the statuses 200,
\* 202 and 204; any other status, another 2xx included, is a classified error.
C7_DeletedOnly200_202_204 ==
  (pc = "done" /\ call.tool = "delete_repo" /\ Len(responses) = 1
     /\ responses[1].kind = "response") =>
    /\ Deleted <=> responses[1].status \in {200, 202, 204}
    /\ responses[1].status \notin {200, 202, 204} =>
         result = ErrorString(format_error("Repo delete failed",
                                           HTTPStatusError(responses[1])))

\* C7 as amended: delete_repo reports "deleted" exactly for the 2xx statuses
\* (200, 202, 204 and any other 2xx); every status outside 2xx, a 3xx or a 404
\* included, is reported as the classified error and never as "deleted".
C7_DeletedOnAny2xx ==
  (pc = "done" /\ call.tool = "delete_repo" /\ Len(responses) = 1
     /\ responses[1].kind = "response") =>
    /\ Deleted <=> (responses[1].status >= 200 /\ responses[1].status <= 299)
    /\ ~(responses[1].status >= 200 /\ responses[1].status <= 299) =>
         result = ErrorString(format_error("Repo delete failed",
                                           HTTPStatusError(responses[1])))

C7_Witness ==
  /\ pc = "done"
  /\ call.tool = "delete_repo"
  /\ Len(responses) = 1
  /\ responses[1].status = 201
  /\ Deleted

\* C8: within one invocation no (method, path) pair is requested twice, and a
\* request that follows a failed step is only ever the PUT sent after a 405
\* answer to the PATCH of update_repo.
C8_NoRetry ==
  /\ \A i, j \in 1..Len(requests) :
       i < j => ~(requests[i].method = requests[j].method
                  /\ requests[i].path = requests[j].path)
  /\ \A i \in 1..Len(responses) :
       (Failed(responses[i]) /\ Len(requests) > i) =>
         /\ call.tool = "update_repo"
         /\ i = 1
         /\ responses[1].status = 405
         /\ requests[1].method = "PATCH"
         /\ requests[2].method = "PUT"
         /\ Len(requests) = 2

C8_Witness ==
  /\ pc = "done"
  /\ BothRequested
  /\ Len(responses) = 1
  /\ Failed(responses[1])
  /\ Len(requests) = 1

MissingCredentialTexts ==
  {"GITHUB_TOKEN not provided", "GITHUB_USERNAME not provided",
   "GITHUB_TOKEN not configured"}
InvalidIssueNumberText == "invalid literal for int()"

\* C9: an invocation that ends with a missing-credential error or with the
\* invalid-issue-number error has sent no request; an invocation whose
\* credentials are missing, or whose issue value is not numeric, returns that
\* error at once.
C9_LocalValidationFirst ==
  /\ (pc = "done"
        /\ result.error.text \in MissingCredentialTexts \cup {InvalidIssueNumberText}) =>
       requests = <<>> /\ responses = <<>>
  /\ (call.tool # "" /\ ~CredsResolved) =>
       /\ pc = "done"
       /\ requests = <<>>
       /\ result.status = "error"
       /\ result.error.text \in MissingCredentialTexts
  /\ (call.tool = "issue_update" /\ CredsResolved /\ call.issue # "7") =>
       /\ pc = "done"
       /\ requests = <<>>
       /\ result.status = "error"
       /\ result.error.text = InvalidIssueNumberText

C9_Witness ==
  /\ pc = "done"
  /\ call.tool = "issue_update"
  /\ call.issue = "x"
  /\ call.title = "T"
  /\ CredsResolved
  /\ result.error.text = InvalidIssueNumberText

\* first non-empty of the call context's value and the configured value
FirstNonEmpty(ctxValue, envValue) ==
  IF ctxValue # "" THEN StripStr(ctxValue) ELSE StripStr(envValue)

\* C10: token and username are each the call context's value when that is
\* non-empty and the configured value otherwise; the call fails with the
\* missing-credential error naming the field exactly when one of the two is
\* empty, and no request carries an empty token or an empty username, in
\* both variants of the server.
C10_CredentialResolution ==
  call.tool # "" =>
    LET token    == FirstNonEmpty(context.token, GITHUB_TOKEN)
        username == FirstNonEmpty(context.username, GITHUB_USERNAME)
    IN  /\ (token # "" /\ username # "") =>
             /\ creds = Identity(token, username)
             /\ result.error.text \notin MissingCredentialTexts
        /\ token = "" =>
             /\ pc = "done"
             /\ creds = NoCreds
             /\ result.error.text \in {"GITHUB_TOKEN not provided",
                                       "GITHUB_TOKEN not configured"}
        /\ (token # "" /\ username = "") =>
             /\ pc = "done"
             /\ creds = NoCreds
             /\ result.error.text = "GITHUB_USERNAME not provided"
        /\ \A i \in 1..Len(requests) :
             /\ requests[i].authorization # ""
             /\ requests[i].path[1] = "repos" => requests[i].path[2] # ""

\* the last remote step of the invocation failed
LastFailed ==
  Len(responses) >= 1 /\ Failed(responses[Len(responses)])

\* the diagnostic the caller receives for the failed step
ReportedError ==
  IF result.status = "success" THEN result.data.readme_error ELSE result.error

\* C11: every failure of a remote call, an HTTP error status or a transport
\* failure, the second step of a multi-step tool included, reaches the caller
\* as a diagnostic carrying the operation's label.
C11_FailuresAreLabelled ==
  (pc = "done" /\ LastFailed) =>
    /\ ReportedError # NoMsg
    /\ ReportedError.prefix # ""

\* C12: every invocation returns one structured object, a success object or
\* an error object with status "error" and the message; a failure is never
\* returned as a bare string.
C12_StructuredResult ==
  pc = "done" =>
    /\ result.shape = "object"
    /\ result.status \in {"success", "error"}
    /\ result.error # NoMsg => result.status = "error"

\* C16: issues_list (credentials resolved) sends exactly one GET to the issues
\* endpoint; a state outside open, closed, all gives no `state` parameter and
\* no local error, a state among the three is sent as given.
C16_ListStateFilter ==
  (call.tool = "issues_list" /\ CredsResolved) =>
    /\ Len(requests) = 1
    /\ requests[1].method = "GET"
    /\ requests[1].path = <<"repos", creds.username, call.repo, "issues">>
    /\ IF call.state \in {"open", "closed", "all"}
       THEN /\ DOMAIN requests[1].params = {"state"}
            /\ requests[1].params["state"] = call.state
       ELSE DOMAIN requests[1].params = {}
    /\ (pc = "done" /\ Completed(responses[1]) /\ responses[1].text = "json") =>
         result.status = "success"

C16_Witness ==
  /\ pc = "done"
  /\ call.tool = "issues_list"
  /\ call.state = "bogus"
  /\ Len(requests) = 1
  /\ DOMAIN requests[1].params = {}
  /\ result.status = "success"

\* a csv argument that names nothing: empty, or separators and blanks only
NamesNothing(csv) == \A i \in 1..Len(csv) : csv[i] \in {",", " "}

NothingRequested ==
  /\ call.tool = "issue_update"
  /\ call.issue = "7"
  /\ CredsResolved
  /\ call.title = "" /\ call.body = "" /\ call.state = "" /\ call.comment = ""
  /\ NamesNothing(call.labels_csv)
  /\ NamesNothing(call.assignees_csv)

\* C19: an issue_update call with no title, body, state or comment and with
\* labels_csv and assignees_csv naming nothing (empty or separators only)
\* returns the no-op marker and sends no request.
C19_NoOpSendsNothing ==
  NothingRequested =>
    /\ pc = "done"
    /\ requests = <<>>
    /\ result.status = "success"
    /\ result.data.marker = "no-op"

\* C13: every invocation, whatever its arguments, its credentials (a missing
\* call context included) and the remote outcomes, ends by returning a value:
\* it waits for at most two remote outcomes, one per request sent, and no
\* exception leaves the tool function.
C13_AlwaysReturns ==
  /\ pc = "done" => result.shape \in {"object", "string"}
  /\ pc \notin {"idle", "done"} =>
       /\ Len(requests) = Len(responses) + 1
       /\ Len(requests) <= 2
       /\ result = NoResult
  /\ pc = "idle" => requests = <<>> /\ responses = <<>>

C13_Witness ==
  /\ pc = "done"
  /\ mode = "multi"
  /\ ~context.has_env
  /\ LastFailed
  /\ responses[Len(responses)].kind = "failure"
  /\ result.shape = "object"
  /\ result.status = "error"

\* the payload fields that hold a string
StringFields ==
  {"name", "description", "title", "body", "state", "head", "base",
   "message", "content"}

\* the strings a line carries
LineStrings(l) ==
  {l.args[j] : j \in DOMAIN l.args}
    \cup {l.body[k] : k \in DOMAIN l.body \cap StringFields}

\* the Authorization values of the process and of the invocation in progress
Tokens ==
  ({GITHUB_TOKEN, StripStr(context.token), creds.token}
     \cup {requests[i].authorization : i \in DOMAIN requests}) \ {""}

\* C14: no log line, at any level, carries the Authorization value (the
\* token) of a request: the request hook logs the headers with the
\* placeholder in its place and no other logging statement writes the token.
C14_TokenNeverLogged ==
  \A i \in DOMAIN log : LineStrings(log[i]) \cap Tokens = {}

C14_Witness ==
  /\ pc = "done"
  /\ Len(requests) = 2
  /\ Len(responses) = 2
  /\ requests[1].authorization \in {"tC", "tE"}
  /\ \E i \in DOMAIN log :
       /\ log[i].fmt = "Headers"
       /\ log[i].args[1] = "<hidden>"
  /\ \E i \in DOMAIN log : log[i].fmt = "Unexpected error"

\* an HTTP status error has been classified
ClassifiedStatusError ==
  classified # NoClassified /\ classified.e.type = "HTTPStatusError"

\* the body carries the CSRF marker
Marker == {"CSRF", "Invalid CSRF token"}

\* C15: a 401 or 403 response whose body has no CSRF marker is classified as
\* an authentication failure, and the message carries the values of the
\* X-RateLimit-Remaining and X-RateLimit-Reset headers of that response.
C15_AuthFailureCarriesRateLimit ==
  (/\ ClassifiedStatusError
   /\ classified.e.status \in {401, 403}
   /\ classified.e.text \notin Marker) =>
    /\ classified.msg.category = "Auth"
    /\ classified.msg.prefix = classified.prefix
    /\ classified.msg.code = classified.e.status
    /\ classified.msg.rl = classified.e.rl
    /\ classified.msg.reset = classified.e.reset

C15_Witness ==
  /\ ClassifiedStatusError
  /\ classified.e.status = 403
  /\ classified.e.rl = "0"
  /\ classified.e.reset = "1700000000"
  /\ classified.msg.category = "Auth"
  /\ classified.msg.rl = "0"

\* C17: the classifier applies its rules in order and the first match wins:
\* a redirect status gives Redirect whatever the body; otherwise a body with
\* the CSRF marker gives CSRF whatever the status; otherwise 401 or 403 gives
\* Auth; otherwise the status error gives Api; an exception that is not a
\* status error gives the label followed by the exception's own text.
C17_FirstMatchWins ==
  classified # NoClassified =>
    LET e == classified.e
        m == classified.msg
    IN  /\ m.prefix = classified.prefix
        /\ (e.type = "HTTPStatusError" /\ e.status \in {301, 302, 307, 308}) =>
             m.category = "Redirect"
        /\ (/\ e.type = "HTTPStatusError"
            /\ e.status \notin {301, 302, 307, 308}
            /\ e.text \in Marker) =>
             m.category = "CSRF"
        /\ (/\ e.type = "HTTPStatusError"
            /\ e.status \notin {301, 302, 307, 308}
            /\ e.text \notin Marker
            /\ e.status \in {401, 403}) =>
             m.category = "Auth"
        /\ (/\ e.type = "HTTPStatusError"
            /\ e.status \notin {301, 302, 307, 308, 401, 403}
            /\ e.text \notin Marker) =>
             m.category = "Api" /\ m.text = e.text
        /\ e.type # "HTTPStatusError" =>
             m.category = e.type /\ m.text = e.arg

C17_Witness ==
  /\ ClassifiedStatusError
  /\ classified.e.status = 302
  /\ classified.e.text = "Invalid CSRF token"
  /\ classified.msg.category = "Redirect"

\* the Identity resolved for the invocation of caller i
OwnIdentity(i) == authenticate(invocations[i].context).creds

\* every request of every invocation carries the invocation's own token and
\* username
OwnCredentialsOnly ==
  \A i \in Callers : \A k \in DOMAIN invocations[i].requests :
    LET req == invocations[i].requests[k] IN
    /\ req.authorization = OwnIdentity(i).token
    /\ req.user_agent = user_agent(OwnIdentity(i))
    /\ req.path = <<"repos", OwnIdentity(i).username, invocations[i].repo>>

\* C18: when invocations with different context credentials overlap, every
\* request of an invocation carries the token and the username resolved for
\* that invocation, in the Authorization header, the User-Agent and the
\* /repos/{user}/ path, and no step of an invocation changes the
\* process-wide configuration.
C18_InvocationsIndependent ==
  /\ []OwnCredentialsOnly
  /\ [][config' = config]_vars

C18_Witness ==
  /\ Len(invocations[1].requests) = 2
  /\ Len(invocations[2].requests) = 2
  /\ invocations[1].pc = "api_update_repo_put"
  /\ invocations[2].pc = "api_update_repo_put"
  /\ invocations[1].context = Ctx(TRUE, "tC", "uC")
  /\ invocations[2].context = Ctx(TRUE, "tD", "uD")
  /\ invocations[1].requests[2].authorization = "tC"
  /\ invocations[2].requests[2].authorization = "tD"

====
